---- MODULE Spec2Model ----
(***************************************************************************)
(* Model of heredity.py: exact inference by enumeration over a family.     *)
(*                                                                         *)
(* Numbers.  The program computes with floating-point probabilities.  The  *)
(* model computes the same expressions in exact fixed-point arithmetic: a  *)
(* table probability x is the integer x * Unit, a product of k table       *)
(* probabilities is an integer at scale Unit^k, and the joint probability  *)
(* of a family of n people is an integer at scale Unit^(3n) = Base^(2n),   *)
(* held as a little-endian vector of NL limbs: the vector a stands for     *)
(* the sum of a[i] * Base^(i-1).  A product is carried (every limb below   *)
(* Base); a sum is taken limb by limb and is carried by Canon when its     *)
(* value is compared.  A weight of the accumulator is a fraction [n, d]    *)
(* of two such vectors.  Floating-point rounding is not modelled.          *)
(*                                                                         *)
(* Iteration order.  Python does not fix the order in which a set is       *)
(* iterated; the model iterates every set in the order of NameSeq.         *)
(***************************************************************************)
EXTENDS Integers, Sequences, FiniteSets, TLC

VARIABLES
  rows,          \* the records of the CSV file
  people,        \* load_data's dictionary
  probabilities, \* the accumulator of main
  pc,            \* position in main
  iT, iO, iW,    \* positions of the three powerset iterators of main
  have_trait, one_gene, two_genes, p,   \* locals of main
  visited, ncalls, psum,  \* history: triples evaluated, their number, sum of p
  call           \* history: the arguments of the last call of joint_probability

vars == <<rows, people, probabilities, pc, iT, iO, iW,
          have_trait, one_gene, two_genes, p, visited, ncalls, psum, call>>

----------------------------------------------------------------------------
(* Bounds *)

\* largest family read from a file
MaxPeople == 3

\* largest raw weight handed to normalize on its own
MaxWeight == 1

----------------------------------------------------------------------------
(* Fixed-point numbers *)

\* one hundredth is the unit of every entry of PROBS
Unit == 100

Base == 10 * Unit

NL == 2 * MaxPeople + 2

RECURSIVE Zeros(_)
Zeros(j) == IF j = 0 THEN <<>> ELSE <<0>> \o Zeros(j - 1)

\* a, with zero limbs added up to NL limbs
Pad(a) == a \o Zeros(NL - Len(a))

\* the integer 0 <= k < Base as a limb vector
FromInt(k) == Pad(<<k>>)

Zero == FromInt(0)

\* Base^(2n) = Unit^(3n): the value 1 at the scale of a family of n people
One(n) == Pad(Zeros(2 * n) \o <<1>>)

\* a + b, limb by limb
BAdd(a, b) == [i \in 1..NL |-> a[i] + b[i]]

RECURSIVE CanonFrom(_, _, _)
CanonFrom(a, i, carry) ==
  IF i > NL THEN <<>>
  ELSE <<(a[i] + carry) % Base>> \o CanonFrom(a, i + 1, (a[i] + carry) \div Base)

\* the carried vector of the same value
Canon(a) == CanonFrom(a, 1, 0)

RECURSIVE MulFrom(_, _, _, _)
MulFrom(a, k, i, carry) ==
  IF i > Len(a) THEN <<carry % Base, carry \div Base>>
  ELSE <<(a[i] * k + carry) % Base>>
       \o MulFrom(a, k, i + 1, (a[i] * k + carry) \div Base)

\* a * k for a carried vector a and an integer 0 <= k <= Unit^3; two limbs longer
BMul(a, k) == MulFrom(a, k, 1, 0)

----------------------------------------------------------------------------
(* Names and values *)

\* the names of the rows of a file, in file order
NameSeq == <<"a", "b", "c", "d", "e", "f">>

\* a mother or father field naming no row of the file
Ghost == "zed"

None == "None"

PyBool(b) == IF b THEN "True" ELSE "False"

RECURSIVE SeqOfFirst(_)
SeqOfFirst(n) == IF n = 0 THEN <<>> ELSE Append(SeqOfFirst(n - 1), NameSeq[n])

Range(s) == {s[i] : i \in 1..Len(s)}

\* list(s) for a set s of names
ListOf(s) == SelectSeq(SeqOfFirst(Len(NameSeq)), LAMBDA x : x \in s)

----------------------------------------------------------------------------
(* PROBS *)

PROBS ==
  [gene     |-> (2 :> 1 @@ 1 :> 3 @@ 0 :> 96),
   trait    |-> (2 :> (TRUE :> 65 @@ FALSE :> 35) @@
                 1 :> (TRUE :> 56 @@ FALSE :> 44) @@
                 0 :> (TRUE :> 1  @@ FALSE :> 99)),
   mutation |-> 1]

----------------------------------------------------------------------------
(* load_data *)

OrNone(s) == IF s = "" THEN None ELSE s

TraitOf(s) == IF s = "1" THEN "True" ELSE IF s = "0" THEN "False" ELSE None

load_data(rs) ==
  [name \in {rs[i].name : i \in 1..Len(rs)} |->
     LET row == rs[CHOOSE i \in 1..Len(rs) :
                     /\ rs[i].name = name
                     /\ \A j \in 1..Len(rs) : rs[j].name = name => j <= i]
     IN [name   |-> name,
         mother |-> OrNone(row.mother),
         father |-> OrNone(row.father),
         trait  |-> TraitOf(row.trait)]]

----------------------------------------------------------------------------
(* powerset *)

\* each sequence of seqs with x put in front
RECURSIVE Prefixed(_, _)
Prefixed(x, seqs) ==
  IF seqs = <<>> THEN <<>>
  ELSE << <<x>> \o Head(seqs) >> \o Prefixed(x, Tail(seqs))

\* itertools.combinations(s, r): in lexicographic order of positions
RECURSIVE combinations(_, _)
combinations(s, r) ==
  IF r = 0 THEN << <<>> >>
  ELSE IF Len(s) < r THEN <<>>
  ELSE Prefixed(Head(s), combinations(Tail(s), r - 1))
       \o combinations(Tail(s), r)

\* itertools.chain.from_iterable over r = 0 .. len(s)
RECURSIVE chain(_, _)
chain(s, r) ==
  IF r > Len(s) THEN <<>> ELSE combinations(s, r) \o chain(s, r + 1)

RECURSIVE Sets(_)
Sets(seqs) ==
  IF seqs = <<>> THEN <<>> ELSE <<Range(Head(seqs))>> \o Sets(Tail(seqs))

RECURSIVE Tabulate(_)
Tabulate(ss) ==
  IF ss = {} THEN <<>>
  ELSE LET s == CHOOSE x \in ss : TRUE
       IN (s :> Sets(chain(ListOf(s), 0))) @@ Tabulate(ss \ {s})

\* powerset(s) for every set s of row names, computed once
PowersetTable == Tabulate(SUBSET Range(SeqOfFirst(MaxPeople)))

powerset(s) == PowersetTable[s]

----------------------------------------------------------------------------
(* joint_probability *)

get_gene_count(person, og, tg) ==
  IF person \in tg THEN 2
  ELSE IF person \in og THEN 1
  ELSE 0

\* faulty variant: a parent with two copies passes the gene on with the mutation rate
calculate_gene_probability_swapped(parent_genes) ==
  IF parent_genes = 0 THEN PROBS.mutation
  ELSE IF parent_genes = 1 THEN Unit \div 2
  ELSE PROBS.mutation

\* faulty variant: 1 + mutation for a parent with two copies
calculate_gene_probability_plus(parent_genes) ==
  IF parent_genes = 0 THEN PROBS.mutation
  ELSE IF parent_genes = 1 THEN Unit \div 2
  ELSE Unit + PROBS.mutation

calculate_gene_probability(parent_genes) ==
  IF parent_genes = 0 THEN PROBS.mutation
  ELSE IF parent_genes = 1 THEN Unit \div 2
  ELSE Unit - PROBS.mutation

\* faulty variant: one copy counted as inherited from the mother only
gene_prob_mother_only(ppl, person, og, tg) ==
  LET gene_count == get_gene_count(person, og, tg)
      mother == ppl[person].mother
      father == ppl[person].father
  IN IF mother = None /\ father = None
     THEN PROBS.gene[gene_count] * Unit
     ELSE LET prob_yes_mother ==
                calculate_gene_probability(get_gene_count(mother, og, tg))
              prob_yes_father ==
                calculate_gene_probability(get_gene_count(father, og, tg))
          IN IF gene_count = 0
             THEN (Unit - prob_yes_mother) * (Unit - prob_yes_father)
             ELSE IF gene_count = 1
                  THEN prob_yes_mother * (Unit - prob_yes_father)
             ELSE prob_yes_mother * prob_yes_father

\* gene_prob of one person, at scale Unit^2
gene_prob(ppl, person, og, tg) ==
  LET gene_count == get_gene_count(person, og, tg)
      mother == ppl[person].mother
      father == ppl[person].father
  IN IF mother = None /\ father = None
     THEN PROBS.gene[gene_count] * Unit
     ELSE LET mother_genes == get_gene_count(mother, og, tg)
              father_genes == get_gene_count(father, og, tg)
              prob_yes_mother == calculate_gene_probability(mother_genes)
              prob_no_mother == Unit - prob_yes_mother
              prob_yes_father == calculate_gene_probability(father_genes)
              prob_no_father == Unit - prob_yes_father
          IN IF gene_count = 0 THEN prob_no_mother * prob_no_father
             ELSE IF gene_count = 1
                  THEN prob_yes_mother * prob_no_father
                       + prob_no_mother * prob_yes_father
             ELSE prob_yes_mother * prob_yes_father

\* faulty variant: the trait likelihood of the opposite outcome
trait_prob_negated(person, og, tg, ht) ==
  PROBS.trait[get_gene_count(person, og, tg)][(person \notin ht)]

\* trait_prob of one person, at scale Unit
trait_prob(person, og, tg, ht) ==
  PROBS.trait[get_gene_count(person, og, tg)][(person \in ht)]

RECURSIVE joint_loop(_, _, _, _, _)
joint_loop(ppl, todo, og, tg, ht) ==
  IF todo = <<>> THEN <<1>>
  ELSE LET person == todo[Len(todo)]
           before == joint_loop(ppl, SubSeq(todo, 1, Len(todo) - 1), og, tg, ht)
       IN BMul(before, gene_prob(ppl, person, og, tg)
                       * trait_prob(person, og, tg, ht))

joint_probability(ppl, og, tg, ht) ==
  Pad(joint_loop(ppl, ListOf(DOMAIN ppl), og, tg, ht))

----------------------------------------------------------------------------
(* update *)

\* faulty variant: "if" for "elif": a person with two copies is also counted with none
update_if(probs, og, tg, ht, pp) ==
  [person \in DOMAIN probs |->
     LET t == person \in ht
         add(w) == [n |-> BAdd(w.n, pp), d |-> w.d]
         gene == probs[person].gene
     IN [gene  |-> [g \in DOMAIN gene |->
                      IF \/ g = 2 /\ person \in tg
                         \/ g = 1 /\ person \in og
                         \/ g = 0 /\ person \notin og
                      THEN add(gene[g]) ELSE gene[g]],
         trait |-> [probs[person].trait EXCEPT ![t] = add(@)]]]

update(probs, og, tg, ht, pp) ==
  [person \in DOMAIN probs |->
     LET g == IF person \in tg THEN 2 ELSE IF person \in og THEN 1 ELSE 0
         t == person \in ht
     IN [gene  |-> [probs[person].gene EXCEPT
                      ![g] = [n |-> BAdd(@.n, pp), d |-> @.d]],
         trait |-> [probs[person].trait EXCEPT
                      ![t] = [n |-> BAdd(@.n, pp), d |-> @.d]]]]

----------------------------------------------------------------------------
(* normalize *)

\* faulty variant: the sum leaves out the first value
Total_short(dist, keys) ==
  LET RECURSIVE Sum(_)
      Sum(ks) == IF ks = <<>> THEN Zero
                 ELSE BAdd(Sum(Tail(ks)), dist[Head(ks)].n)
  IN Sum(Tail(keys))

\* sum(dist.values()): the weights of one distribution share their denominator
Total(dist, keys) ==
  LET RECURSIVE Sum(_)
      Sum(ks) == IF ks = <<>> THEN Zero
                 ELSE BAdd(Sum(Tail(ks)), dist[Head(ks)].n)
  IN Sum(keys)

\* faulty variant: no guard on a zero total
Divide_unguarded(dist, keys) ==
  [k \in DOMAIN dist |-> [n |-> dist[k].n, d |-> Total(dist, keys)]]

\* dist[k] /= total for every k, total computed once before the loop
Divide(dist, keys) ==
  LET total == Total(dist, keys)
  IN IF Canon(total) # Zero
     THEN [k \in DOMAIN dist |-> [n |-> dist[k].n, d |-> total]]
     ELSE dist

normalize(probs) ==
  [person \in DOMAIN probs |->
     [gene  |-> Divide(probs[person].gene, <<2, 1, 0>>),
      trait |-> Divide(probs[person].trait, <<TRUE, FALSE>>)]]

----------------------------------------------------------------------------
(* main *)

\* the accumulator before the enumeration: every weight is 0
zero_probabilities(ppl) ==
  LET zero == [n |-> Zero, d |-> One(Cardinality(DOMAIN ppl))]
  IN [person \in DOMAIN ppl |->
        [gene  |-> [g \in {2, 1, 0} |-> zero],
         trait |-> [t \in BOOLEAN |-> zero]]]

\* faulty variant: "all" for "any"
fails_evidence_all(ppl, ht) ==
  \A person \in DOMAIN ppl :
     /\ ppl[person].trait # None
     /\ ppl[person].trait # PyBool(person \in ht)

fails_evidence(ppl, ht) ==
  \E person \in DOMAIN ppl :
     /\ ppl[person].trait # None
     /\ ppl[person].trait # PyBool(person \in ht)

\* faulty variant: the innermost loop ranges over every subset
two_genes_sets_all(nms, og) == powerset(nms)

\* the sets the innermost loop ranges over
two_genes_sets(nms, og) == powerset(nms \ og)

names == DOMAIN people

\* load_data, the zero accumulator, and the start of the outer loop
Load ==
  /\ pc = "load"
  /\ people' = load_data(rows)
  /\ probabilities' = zero_probabilities(people')
  /\ iT' = 1
  /\ pc' = "trait"
  /\ UNCHANGED <<rows, iO, iW, have_trait, one_gene, two_genes, p,
                 visited, ncalls, psum, call>>

\* the outer loop takes a trait set that contradicts the evidence: continue
SkipTrait ==
  /\ pc = "trait"
  /\ iT <= Len(powerset(names))
  /\ fails_evidence(people, powerset(names)[iT])
  /\ have_trait' = powerset(names)[iT]
  /\ iT' = iT + 1
  /\ UNCHANGED <<rows, people, probabilities, pc, iO, iW, one_gene,
                 two_genes, p, visited, ncalls, psum, call>>

\* the outer loop takes a trait set consistent with the evidence
EnterTrait ==
  /\ pc = "trait"
  /\ iT <= Len(powerset(names))
  /\ ~ fails_evidence(people, powerset(names)[iT])
  /\ have_trait' = powerset(names)[iT]
  /\ iO' = 1
  /\ iW' = 1
  /\ pc' = "genes"
  /\ UNCHANGED <<rows, people, probabilities, iT, one_gene, two_genes, p,
                 visited, ncalls, psum, call>>

\* the body of the innermost loop, and the step of the three iterators
Visit ==
  /\ pc = "genes"
  /\ LET og == powerset(names)[iO]
         inner == two_genes_sets(names, og)
     IN /\ one_gene' = og
        /\ two_genes' = inner[iW]
        /\ p' = joint_probability(people, one_gene', two_genes', have_trait)
        /\ probabilities' =
             update(probabilities, one_gene', two_genes', have_trait, p')
        /\ visited' = visited \cup {<<have_trait, one_gene', two_genes'>>}
        /\ ncalls' = ncalls + 1
        /\ psum' = BAdd(psum, p')
        /\ call' = <<have_trait, one_gene', two_genes'>>
        /\ IF iW < Len(inner)
           THEN /\ iW' = iW + 1
                /\ UNCHANGED <<iO, iT, pc>>
           ELSE IF iO < Len(powerset(names))
           THEN /\ iO' = iO + 1
                /\ iW' = 1
                /\ UNCHANGED <<iT, pc>>
           ELSE /\ iT' = iT + 1
                /\ pc' = "trait"
                /\ UNCHANGED <<iO, iW>>
  /\ UNCHANGED <<rows, people, have_trait>>

\* the outer loop is exhausted
ExitLoop ==
  /\ pc = "trait"
  /\ iT > Len(powerset(names))
  /\ pc' = "normalize"
  /\ UNCHANGED <<rows, people, probabilities, iT, iO, iW, have_trait,
                 one_gene, two_genes, p, visited, ncalls, psum, call>>

Normalize ==
  /\ pc = "normalize"
  /\ probabilities' = normalize(probabilities)
  /\ pc' = "done"
  /\ UNCHANGED <<rows, people, iT, iO, iW, have_trait, one_gene, two_genes,
                 p, visited, ncalls, psum, call>>

----------------------------------------------------------------------------
(* Input files *)

Row(i, m, f, t) == [name |-> NameSeq[i], mother |-> m, father |-> f, trait |-> t]

Earlier(i) == {NameSeq[j] : j \in 1..(i - 1)}

\* the parent fields of row i of a well-formed file: both blank, or two
\* different earlier rows, the mother's before the father's
GoodParents(i) ==
  {<<"", "">>}
  \cup UNION {{<<NameSeq[m], NameSeq[f]>> : f \in (m + 1)..(i - 1)} :
                m \in 1..(i - 1)}

\* parent fields that break the loading invariant
BadParents(i) ==
  LET fields == Earlier(i) \cup {"", Ghost}
  IN {mf \in fields \X fields :
        /\ ~ (mf[1] = "" /\ mf[2] = "")
        /\ ~ (mf[1] \in Earlier(i) /\ mf[2] \in Earlier(i))}

GoodTraits == {"1", "0", ""}

BadTraits == {"yes"}

GoodRows(i) ==
  {Row(i, mf[1], mf[2], t) : mf \in GoodParents(i), t \in GoodTraits}

BadRows(i) ==
  {Row(i, mf[1], mf[2], t) : mf \in BadParents(i), t \in GoodTraits}
  \cup {Row(i, "", "", t) : t \in BadTraits}

RECURSIVE GoodFiles(_)
GoodFiles(n) ==
  IF n = 0 THEN {<<>>}
  ELSE {Append(f, r) : f \in GoodFiles(n - 1), r \in GoodRows(n)}

\* well-formed rows followed by one malformed row
BadFiles(n) == {Append(f, r) : f \in GoodFiles(n - 1), r \in BadRows(n)}

Start ==
  /\ people = <<>>
  /\ probabilities = <<>>
  /\ pc = "load"
  /\ iT = 1
  /\ iO = 1
  /\ iW = 1
  /\ have_trait = {}
  /\ one_gene = {}
  /\ two_genes = {}
  /\ p = Zero
  /\ visited = {}
  /\ ncalls = 0
  /\ psum = Zero
  /\ call = <<>>

Init ==
  /\ rows \in UNION {GoodFiles(n) : n \in 1..MaxPeople}
  /\ Start

Next == Load \/ SkipTrait \/ EnterTrait \/ Visit \/ ExitLoop \/ Normalize

Spec == Init /\ [][Next]_vars

InitMalformed ==
  /\ rows \in UNION {BadFiles(n) : n \in 1..MaxPeople}
  /\ Start

SpecMalformed == InitMalformed /\ [][Next]_vars

----------------------------------------------------------------------------
(* normalize on its own: any accumulator of two people *)

Weights == {[n |-> FromInt(w), d |-> FromInt(1)] : w \in 0..MaxWeight}

InitNormalize ==
  /\ rows = <<Row(1, "", "", ""), Row(2, "", "", "")>>
  /\ people = load_data(rows)
  /\ probabilities \in
       [DOMAIN people ->
          [gene : [{2, 1, 0} -> Weights], trait : [BOOLEAN -> Weights]]]
  /\ pc = "normalize"
  /\ iT = 1
  /\ iO = 1
  /\ iW = 1
  /\ have_trait = {}
  /\ one_gene = {}
  /\ two_genes = {}
  /\ p = Zero
  /\ visited = {}
  /\ ncalls = 0
  /\ psum = Zero
  /\ call = <<>>

NextNormalize == Normalize

SpecNormalize == InitNormalize /\ [][NextNormalize]_vars

----------------------------------------------------------------------------
(* Properties *)

\* the carried vector of an integer 0 <= k < Base^3
Num(k) == Pad(<<k % Base, (k \div Base) % Base, k \div (Base * Base)>>)

NonNeg(a) == \A i \in 1..Len(a) : a[i] >= 0

RECURSIVE LeqFrom(_, _, _)
LeqFrom(a, b, i) ==
  IF i = 0 THEN TRUE
  ELSE IF a[i] # b[i] THEN a[i] < b[i]
  ELSE LeqFrom(a, b, i - 1)

\* a <= b, for carried vectors
BLeq(a, b) == LeqFrom(a, b, NL)


HasParents(person) ==
  ~ (people[person].mother = None /\ people[person].father = None)

\* each person has no parents, or two parents who are rows of the file
WellFormed ==
  \A person \in names :
     HasParents(person) =>
        /\ people[person].mother \in names
        /\ people[person].father \in names

Called == call # <<>>

\* the transmission probability of the specification, in hundredths
Transmission(copies) == CASE copies = 0 -> 1 [] copies = 1 -> 50 [] copies = 2 -> 99

\* the copies the last call gave a person
Copies(person) ==
  IF person \in call[3] THEN 2 ELSE IF person \in call[2] THEN 1 ELSE 0

Prior(copies) == CASE copies = 0 -> 96 [] copies = 1 -> 3 [] copies = 2 -> 1

Likelihood(copies, shown) ==
  LET yes == CASE copies = 0 -> 1 [] copies = 1 -> 56 [] copies = 2 -> 65
  IN IF shown THEN yes ELSE 100 - yes

\* gene-count probability x trait likelihood of one person, in millionths
Factor(person) ==
  LET c == Copies(person)
      tm == Transmission(Copies(people[person].mother))
      tf == Transmission(Copies(people[person].father))
      gene == IF ~ HasParents(person) THEN 100 * Prior(c)
              ELSE CASE c = 0 -> (100 - tm) * (100 - tf)
                     [] c = 1 -> tm * (100 - tf) + (100 - tm) * tf
                     [] c = 2 -> tm * tf
  IN gene * Likelihood(c, person \in call[1])

RECURSIVE Product(_)
Product(S) ==
  IF S = {} THEN <<1>>
  ELSE LET person == CHOOSE x \in S : TRUE
       IN BMul(Product(S \ {person}), Factor(person))

\* C1: the value joint_probability returned for the current assignment is the
\* product over all people of gene-count probability x trait likelihood, with
\* the prior for a person without parents and the transmission formula of the
\* parents' copies for a person with parents.
C1_JointIsProduct ==
  (Called /\ WellFormed /\ call[2] \cap call[3] = {}) => p = Pad(Product(names))

\* a child with one copy, a mother with two and a father with none was evaluated
C1_Witness ==
  /\ Called
  /\ \E person \in names :
        /\ HasParents(person)
        /\ person \in call[2]
        /\ people[person].mother \in call[3]
        /\ people[person].father \notin call[2] \cup call[3]

Consistent(ht) ==
  \A person \in names :
     \/ people[person].trait = None
     \/ (people[person].trait = "True" <=> person \in ht)

Expected ==
  {t \in (SUBSET names) \X (SUBSET names) \X (SUBSET names) :
     Consistent(t[1]) /\ t[2] \cap t[3] = {}}

Enumerated == pc \in {"normalize", "done"}

\* C2: no triple is evaluated twice, and when the loops of main are over the
\* triples evaluated are exactly those with have_trait consistent with every
\* observed trait and one_gene, two_genes disjoint.
C2_ExactlyOnce ==
  /\ ncalls = Cardinality(visited)
  /\ Enumerated => visited = Expected

\* a family of three with one observed trait has been enumerated
C2_Witness ==
  /\ Enumerated
  /\ Cardinality(names) = 3
  /\ \E person \in names : people[person].trait = "False"
  /\ ncalls = 108

IsZero(a) == \A i \in 1..Len(a) : a[i] = 0

\* C3: joint_probability is never called with a trait set that contradicts an
\* observed trait, and a person with an observed trait has weight 0 on the
\* opposite trait value in every state.
C3_EvidenceRespected ==
  /\ Called => Consistent(call[1])
  /\ \A person \in DOMAIN probabilities :
        /\ people[person].trait = "True" =>
             IsZero(probabilities[person].trait[FALSE].n)
        /\ people[person].trait = "False" =>
             IsZero(probabilities[person].trait[TRUE].n)

\* a trait set without a person observed to show the trait was skipped, and
\* the person has gathered weight on the observed value
C3_Witness ==
  /\ Called
  /\ \E person \in names :
        /\ people[person].trait = "True"
        /\ ~ IsZero(probabilities[person].trait[TRUE].n)
        /\ Cardinality(names) > 1

Sum3(f) == Canon(BAdd(BAdd(f[0].n, f[1].n), f[2].n))

Sum2(f) == Canon(BAdd(f[TRUE].n, f[FALSE].n))

\* C4: after normalize, in a well-formed family, each person's three gene
\* weights are fractions >= 0 of one non-zero total that is their sum, and so
\* are the two trait weights.
C4_SumsToOne ==
  (pc = "done" /\ WellFormed) =>
     \A person \in names :
        LET gene == probabilities[person].gene
            trait == probabilities[person].trait
        IN /\ \A g \in {0, 1, 2} :
                /\ NonNeg(gene[g].n)
                /\ Canon(gene[g].d) = Sum3(gene)
           /\ \A t \in BOOLEAN :
                /\ NonNeg(trait[t].n)
                /\ Canon(trait[t].d) = Sum2(trait)
           /\ ~ IsZero(Sum3(gene))
           /\ ~ IsZero(Sum2(trait))

\* a family with a child has been normalized
C4_Witness ==
  /\ pc = "done"
  /\ \E person \in names : HasParents(person)

Alone ==
  /\ names = {"a"}
  /\ ~ HasParents("a")
  /\ people["a"].trait = "True"

\* C5: for one person without parents observed to show the trait, the gene
\* weights after the enumeration are 0.0096, 0.0168 and 0.0065 for 0, 1 and 2
\* copies, and normalize divides each by their total 0.0329.
C5_SinglePosterior ==
  (Enumerated /\ Alone) =>
     LET gene == probabilities["a"].gene
     IN /\ Canon(gene[0].n) = Num(9600)
        /\ Canon(gene[1].n) = Num(16800)
        /\ Canon(gene[2].n) = Num(6500)
        /\ \A g \in {0, 1, 2} :
              Canon(gene[g].d) = IF pc = "done" THEN Num(32900) ELSE One(1)

C5_Witness == pc = "done" /\ Alone

NoEvidence == \A person \in names : people[person].trait = None

\* C6: with no observed trait, after normalize every person without parents
\* has the gene distribution 0.96, 0.03, 0.01.
C6_PriorRecovered ==
  (pc = "done" /\ NoEvidence) =>
     \A person \in names :
        ~ HasParents(person) =>
           \A g \in {0, 1, 2} :
              LET w == probabilities[person].gene[g]
              IN /\ ~ IsZero(w.d)
                 /\ BMul(Canon(w.n), 100) = BMul(Canon(w.d), Prior(g))

\* a family of a child and two parents without evidence has been normalized
C6_Witness ==
  /\ pc = "done"
  /\ NoEvidence
  /\ \E person \in names : HasParents(person)

\* C7: the value joint_probability returned is at least 0 and at most 1.
C7_JointInUnitInterval ==
  (Called /\ WellFormed) =>
     /\ NonNeg(p)
     /\ BLeq(p, One(Cardinality(names)))

\* a family of three with a child was evaluated, with a non-zero result
C7_Witness ==
  /\ Called
  /\ Cardinality(names) = 3
  /\ \E person \in names : HasParents(person) /\ person \in call[3]
  /\ ~ IsZero(p)

\* a row whose parents are not both blank or both rows of the file, or whose
\* trait is none of "1", "0" and blank
MalformedRow(r) ==
  \/ ~ \/ r.mother = "" /\ r.father = ""
       \/ /\ r.mother \in {rows[i].name : i \in 1..Len(rows)}
          /\ r.father \in {rows[i].name : i \in 1..Len(rows)}
  \/ r.trait \notin {"1", "0", ""}

Malformed == \E i \in 1..Len(rows) : MalformedRow(rows[i])

\* C8: a file with a malformed record ends the run in a fatal error: nothing
\* is enumerated, normalized or reported.
C8_MalformedIsFatal == Malformed => pc \in {"load", "error"}

\* C9: normalize leaves a distribution whose total is 0 unchanged, all weights
\* 0, divides no weight by zero, and divides each weight of every other
\* distribution by that distribution's own total.
NormalizedFrom(old, new, keys) ==
  LET total == Total(old, keys)
  IN IF IsZero(total)
     THEN /\ new = old
          /\ \A k \in DOMAIN old : IsZero(old[k].n)
     ELSE \A k \in DOMAIN old : new[k].n = old[k].n /\ new[k].d = total

C9_NormalizeStep ==
  pc = "normalize" =>
     /\ pc' = "done"
     /\ DOMAIN probabilities' = DOMAIN probabilities
     /\ \A person \in DOMAIN probabilities :
          /\ NormalizedFrom(probabilities[person].gene,
                            probabilities'[person].gene, <<2, 1, 0>>)
          /\ NormalizedFrom(probabilities[person].trait,
                            probabilities'[person].trait, <<TRUE, FALSE>>)
          /\ \A g \in {0, 1, 2} : ~ IsZero(probabilities'[person].gene[g].d)
          /\ \A t \in BOOLEAN : ~ IsZero(probabilities'[person].trait[t].d)

C9_ZeroTotalGuarded == [][C9_NormalizeStep]_vars

\* normalize has run on a person with gene total 0 and a non-zero trait total
C9_Witness ==
  /\ pc = "done"
  /\ \E person \in DOMAIN probabilities :
        /\ \A g \in {0, 1, 2} : IsZero(probabilities[person].gene[g].n)
        /\ ~ IsZero(Sum2(probabilities[person].trait))
        /\ probabilities[person].trait[TRUE].d = Sum2(probabilities[person].trait)

\* C10: a call of update adds p to exactly one gene weight and one trait
\* weight of every person and changes no other weight; after it every
\* person's gene total and trait total equal the sum of all p added so far
\* (limb by limb, hence in value).
AddedToOne(old, new) ==
  \E k \in DOMAIN old :
     \A h \in DOMAIN old :
        /\ new[h].d = old[h].d
        /\ new[h].n = IF h = k THEN BAdd(old[h].n, p') ELSE old[h].n

C10_UpdateStep ==
  ncalls' = ncalls + 1 =>
     /\ DOMAIN probabilities' = names
     /\ \A person \in names :
          /\ AddedToOne(probabilities[person].gene, probabilities'[person].gene)
          /\ AddedToOne(probabilities[person].trait, probabilities'[person].trait)
          /\ Total(probabilities'[person].gene, <<2, 1, 0>>) = psum'
          /\ Total(probabilities'[person].trait, <<TRUE, FALSE>>) = psum'

C10_TotalsAgree == [][C10_UpdateStep]_vars

\* update has been called several times on a family of three
C10_Witness ==
  /\ ncalls >= 5
  /\ Cardinality(names) = 3
  /\ ~ IsZero(psum)
  /\ \A person \in names : Sum3(probabilities[person].gene) = Canon(psum)

====
